---- MODULE Spec2Model ----
(***************************************************************************)
(* Model of the Facebook SDK loader (composable/use-facebook-sdk-v2.ts).   *)
(*                                                                         *)
(* The loader is a module-level singleton (_FB, _isReady, _isLoading,      *)
(* _error, _loadPromise) driven by loadSDK() / resetSDK() and by the       *)
(* browser events it subscribes to: the script element's load and error    *)
(* events, the SDK's readiness hook window.fbAsyncInit, and the            *)
(* initialisation timer.  JavaScript runs handlers to completion, and the  *)
(* promise reactions a handler queues run before the next event; each      *)
(* action below is one such run.                                           *)
(*                                                                         *)
(* The second part models the popup-flow launcher                          *)
(* (components/FacebookSignUp.vue): launchSignup(), the FB.login callback  *)
(* and the window message listener _onMessage.                             *)
(***************************************************************************)
EXTENDS Integers, Sequences, FiniteSets, TLC

\* ---- bounds ------------------------------------------------------------
MaxAttempts == 2     \* load attempts started (async bodies of loadSDK)
MaxCallers  == 2     \* loadSDK() calls
MaxResets   == 1     \* resetSDK() calls
MaxLaunches == 2     \* launchSignup() calls
MaxMessages == 1     \* message events dispatched on the window

\* ---- program state -----------------------------------------------------
VARIABLES
  FB,           \* _FB.value is not null
  isReady,      \* _isReady.value
  isLoading,    \* _isLoading.value
  error,        \* _error.value: "none" or the failure
  loadPromise,  \* _loadPromise: 0 (null) or the attempt whose promise it is
  windowFB,     \* window.FB is defined
  fbAsyncInit,  \* window.fbAsyncInit: <<>> (undefined) or the chain of
                \* installed hooks, innermost (previousInit) first
  dom,          \* script elements with id SDK_SCRIPT_ID in the document
  scripts,      \* every script element created: fetch state, hook fired
  attempts,     \* every async body started by loadSDK
  callers,      \* every loadSDK() call: the promise it was handed
  resets,       \* number of resetSDK() calls
  initCalls,    \* number of window.FB.init calls made
  initReturned, \* number of window.FB.init calls that returned
  lastOp,       \* the handler that ran last, and the phase it ran in
  sessionData,  \* _sessionData of the launcher
  listening,    \* _onMessage is registered as a window message listener
  launches,     \* every launchSignup() call and its pending login callback
  events,       \* every event emitted by the launcher, in order
  msgCount      \* number of message events dispatched so far

loaderAll == <<FB, isReady, isLoading, error, loadPromise, windowFB,
               fbAsyncInit, dom, scripts, attempts, callers, resets,
               initCalls, initReturned, lastOp>>

launcherVars == <<sessionData, listening, launches, events, msgCount>>

vars == <<FB, isReady, isLoading, error, loadPromise, windowFB, fbAsyncInit,
          dom, scripts, attempts, callers, resets, initCalls, initReturned,
          lastOp, sessionData, listening, launches, events, msgCount>>

Errors == {"MissingIdentity", "ScriptLoadError", "InitTimeout", "InitException"}

Pending == {"injectWait", "injectDone", "initWait"}

\* The loader state the handlers of the composable read and write.
State ==
  [FB |-> FB, isReady |-> isReady, isLoading |-> isLoading, error |-> error,
   loadPromise |-> loadPromise, windowFB |-> windowFB,
   fbAsyncInit |-> fbAsyncInit, attempts |-> attempts,
   initCalls |-> initCalls, initReturned |-> initReturned]

SetState(st) ==
  /\ FB' = st.FB
  /\ isReady' = st.isReady
  /\ isLoading' = st.isLoading
  /\ error' = st.error
  /\ loadPromise' = st.loadPromise
  /\ windowFB' = st.windowFB
  /\ fbAsyncInit' = st.fbAsyncInit
  /\ attempts' = st.attempts
  /\ initCalls' = st.initCalls
  /\ initReturned' = st.initReturned

\* Loader state of the spec's state machine, read off the flags.
Phase(st) ==
  IF st.isReady THEN "Ready"
  ELSE IF st.isLoading THEN "Loading"
  ELSE IF st.error # "none" THEN "Failed"
  ELSE "Idle"

Op(name, a) == [op |-> name, att |-> a, pre |-> Phase(State)]

\* ---- the composable's functions ----------------------------------------

\* _finalise() that leaves _isLoading and _error as they are.
FinaliseStaleFlags(st) ==
  [st EXCEPT !.FB = st.windowFB, !.isReady = TRUE]

\* _finalise(): sync window.FB into the ref and set the flags.
Finalise(st) ==
  [st EXCEPT !.FB = st.windowFB, !.isReady = TRUE, !.isLoading = FALSE,
             !.error = "none"]

\* catch block that does not null _loadPromise.
CatchBlockKeepsPromise(st, a, e) ==
  [st EXCEPT !.isLoading = FALSE, !.isReady = FALSE, !.error = e,
             !.attempts[a].pc = "rejected", !.attempts[a].err = e]

\* catch block of loadSDK's async body, run for attempt a rejected with e.
CatchBlock(st, a, e) ==
  [st EXCEPT !.isLoading = FALSE, !.isReady = FALSE, !.error = e,
             !.loadPromise = 0,
             !.attempts[a].pc = "rejected", !.attempts[a].err = e]

\* the async body of attempt a runs to its end without throwing.
Resolve(st, a) == [st EXCEPT !.attempts[a].pc = "resolved"]

\* _initSDK() for attempt a, up to the point where it returns its promise,
\* followed by the reactions of loadSDK's async body to a promise already
\* settled.
InitSDK(st, a) ==
  IF st.isReady THEN Resolve(st, a)
  ELSE IF ~st.attempts[a].appId THEN CatchBlock(st, a, "MissingIdentity")
  ELSE IF st.windowFB THEN Resolve(Finalise(st), a)
  ELSE [st EXCEPT !.fbAsyncInit = Append(@, a),
                  !.attempts[a].pc = "initWait",
                  !.attempts[a].timer = TRUE]

\* The attempts of seq, with one more FB.init call counted for those in
\* flight.
RECURSIVE CountInFlight(_)
CountInFlight(seq) ==
  IF seq = <<>> THEN <<>>
  ELSE <<IF Head(seq).pc \in Pending
           THEN [Head(seq) EXCEPT !.inits = @ + 1]
           ELSE Head(seq)>> \o CountInFlight(Tail(seq))

\* One window.FB.init call (ok: it returns), counted globally and for every
\* attempt in flight at that moment.
CountInit(st, ok) ==
  [st EXCEPT !.initCalls = @ + 1,
             !.initReturned = IF ok THEN @ + 1 ELSE @,
             !.attempts = CountInFlight(@)]

\* hook closure that returns at once when its attempt is already settled.
HookBodyDropsLate(st, a, throws) ==
  IF st.attempts[a].settled THEN st
  ELSE IF ~st.windowFB \/ throws
    THEN LET s1 == IF st.windowFB THEN CountInit(st, FALSE) ELSE st IN
         [s1 EXCEPT !.attempts[a].settled = TRUE,
                    !.attempts[a].timer = FALSE,
                    !.attempts[a].hookErr = TRUE]
  ELSE [Finalise(CountInit(st, TRUE)) EXCEPT
                    !.attempts[a].settled = TRUE,
                    !.attempts[a].timer = FALSE,
                    !.attempts[a].pc = "resolved"]

\* The body of the window.fbAsyncInit closure installed by attempt a;
\* throws: the FB.init call raises.
HookBody(st, a, throws) ==
  IF ~st.windowFB
    THEN \* window.FB.init on undefined: TypeError caught by the closure
         IF st.attempts[a].settled THEN st
         ELSE [st EXCEPT !.attempts[a].settled = TRUE,
                         !.attempts[a].timer = FALSE,
                         !.attempts[a].hookErr = TRUE]
  ELSE IF throws
    THEN LET s1 == CountInit(st, FALSE) IN
         IF s1.attempts[a].settled THEN s1
         ELSE [s1 EXCEPT !.attempts[a].settled = TRUE,
                         !.attempts[a].timer = FALSE,
                         !.attempts[a].hookErr = TRUE]
  ELSE LET s1 == Finalise(CountInit(st, TRUE)) IN
       IF s1.attempts[a].settled THEN s1
       ELSE [s1 EXCEPT !.attempts[a].settled = TRUE,
                       !.attempts[a].timer = FALSE,
                       !.attempts[a].pc = "resolved"]

\* window.fbAsyncInit(): each closure calls previousInit first, so the
\* chain runs innermost first.
RECURSIVE RunHooks(_, _, _, _)
RunHooks(st, chain, i, T) ==
  IF i > Len(chain) THEN st
  ELSE RunHooks(HookBody(st, chain[i], i \in T), chain, i + 1, T)

\* Promise reactions queued by the hooks: the catch block of every attempt
\* whose promise a hook rejected.
RECURSIVE RunCatches(_, _, _)
RunCatches(st, chain, i) ==
  IF i > Len(chain) THEN st
  ELSE LET a == chain[i] IN
       RunCatches(IF st.attempts[a].hookErr /\ st.attempts[a].pc = "initWait"
                    THEN CatchBlock(st, a, "InitException")
                    ELSE st,
                  chain, i + 1)

NewAttempt(hasAppId, s, p) ==
  [pc |-> p, appId |-> hasAppId, script |-> s, settled |-> FALSE,
   timer |-> FALSE, hookErr |-> FALSE, err |-> "none", inits |-> 0,
   stale |-> FALSE, injected |-> s # 0]

\* A promise reaction is queued: no event handler runs before it.
MicrotaskPending == \E a \in DOMAIN attempts : attempts[a].pc = "injectDone"

\* undefined
Absent == "absent"

\* `{}`: the session buffer with neither identifier.
EmptyData == [waba_id |-> Absent, phone_number_id |-> Absent]

\* The launcher component right after setup.
LauncherInit ==
  /\ sessionData = EmptyData
  /\ listening = FALSE
  /\ launches = <<>>
  /\ events = <<>>
  /\ msgCount = 0

\* ---- initial state -----------------------------------------------------
Init ==
  /\ LauncherInit
  /\ FB = FALSE
  /\ isReady = FALSE
  /\ isLoading = FALSE
  /\ error = "none"
  /\ loadPromise = 0
  /\ windowFB = FALSE
  /\ fbAsyncInit = <<>>
  /\ dom = {}
  /\ scripts = <<>>
  /\ attempts = <<>>
  /\ callers = <<>>
  /\ resets = 0
  /\ initCalls = 0
  /\ initReturned = 0
  /\ lastOp = [op |-> "init", att |-> 0, pre |-> "Idle"]

\* ---- actions -----------------------------------------------------------

\* loadSDK() that sets the flags before it tests _isReady.
LoadReadySetsFlags ==
  /\ isLoading' = TRUE
  /\ error' = "none"
  /\ callers' = Append(callers, 0)
  /\ lastOp' = Op("loadSDK", 0)
  /\ UNCHANGED <<FB, isReady, loadPromise, windowFB, fbAsyncInit, dom,
                 scripts, attempts, resets, initCalls, initReturned>>

\* loadSDK() when _isReady: `if (_isReady.value) return`.
LoadReady ==
  /\ callers' = Append(callers, 0)
  /\ lastOp' = Op("loadSDK", 0)
  /\ UNCHANGED <<FB, isReady, isLoading, error, loadPromise, windowFB,
                 fbAsyncInit, dom, scripts, attempts, resets, initCalls,
                 initReturned>>

\* loadSDK() while a load is in flight: `return _loadPromise`.
LoadJoin ==
  /\ callers' = Append(callers, loadPromise)
  /\ lastOp' = Op("loadSDK", loadPromise)
  /\ UNCHANGED <<FB, isReady, isLoading, error, loadPromise, windowFB,
                 fbAsyncInit, dom, scripts, attempts, resets, initCalls,
                 initReturned>>

\* loadSDK() otherwise: set the flags, start the async body, which runs
\* _injectScript() up to its first await, and cache its promise.  hasScript:
\* the document holds a script element to insert the new one before; without
\* one the element is created but never inserted and never fetched.
LoadStart(hasAppId, hasScript) ==
  /\ Len(attempts) < MaxAttempts
  /\ LET a == Len(attempts) + 1
         s == Len(scripts) + 1
     IN /\ isLoading' = TRUE
        /\ error' = "none"
        /\ loadPromise' = a
        /\ callers' = Append(callers, a)
        /\ lastOp' = Op("loadSDK", a)
        /\ IF dom # {}
             THEN \* _injectScript: element found, Promise.resolve()
                  /\ attempts' = Append(attempts,
                                   NewAttempt(hasAppId, 0, "injectDone"))
                  /\ UNCHANGED <<dom, scripts>>
             ELSE IF hasScript
             THEN \* _injectScript: create the element and insert it
                  /\ attempts' = Append(attempts,
                                   NewAttempt(hasAppId, s, "injectWait"))
                  /\ scripts' = Append(scripts,
                                 [state |-> "fetching", hookFired |-> FALSE])
                  /\ dom' = {s}
             ELSE \* _injectScript: firstScript is undefined, no insertion
                  /\ attempts' = Append(attempts,
                         [NewAttempt(hasAppId, s, "injectWait")
                            EXCEPT !.injected = FALSE])
                  /\ scripts' = Append(scripts,
                                 [state |-> "detached", hookFired |-> FALSE])
                  /\ UNCHANGED dom
        /\ UNCHANGED <<FB, isReady, windowFB, fbAsyncInit, resets,
                       initCalls, initReturned>>

\* loadSDK(), called on a composable instance created with or without appId.
LoadSDK(hasAppId, hasScript) ==
  /\ Len(callers) < MaxCallers
  /\ UNCHANGED launcherVars
  /\ IF isReady THEN LoadReady
     ELSE IF loadPromise # 0 THEN LoadJoin
     ELSE LoadStart(hasAppId, hasScript)

\* The continuation of `await _injectScript()` when the promise was already
\* resolved: _initSDK() runs in a microtask.
ContinueInit(a) ==
  /\ a \in DOMAIN attempts
  /\ attempts[a].pc = "injectDone"
  /\ SetState(InitSDK(State, a))
  /\ lastOp' = Op("continueInit", a)
  /\ UNCHANGED <<dom, scripts, callers, resets>>
  /\ UNCHANGED launcherVars

\* The attempts of seq, those still in flight marked as overtaken by a
\* resetSDK() call.
RECURSIVE MarkStale(_)
MarkStale(seq) ==
  IF seq = <<>> THEN <<>>
  ELSE <<IF Head(seq).pc \in Pending
           THEN [Head(seq) EXCEPT !.stale = TRUE]
           ELSE Head(seq)>> \o MarkStale(Tail(seq))

\* resetSDK() that leaves the script element in the document.
ResetSDKKeepsScript ==
  /\ resets < MaxResets
  /\ resets' = resets + 1
  /\ FB' = FALSE
  /\ isReady' = FALSE
  /\ isLoading' = FALSE
  /\ error' = "none"
  /\ loadPromise' = 0
  /\ windowFB' = FALSE
  /\ fbAsyncInit' = <<>>
  /\ attempts' = MarkStale(attempts)
  /\ lastOp' = Op("resetSDK", 0)
  /\ UNCHANGED <<dom, scripts, callers, initCalls, initReturned>>
  /\ UNCHANGED launcherVars

\* resetSDK()
ResetSDK ==
  /\ resets < MaxResets
  /\ resets' = resets + 1
  /\ dom' = IF dom = {} THEN dom ELSE dom \ {CHOOSE s \in dom : TRUE}
  /\ FB' = FALSE
  /\ isReady' = FALSE
  /\ isLoading' = FALSE
  /\ error' = "none"
  /\ loadPromise' = 0
  /\ windowFB' = FALSE
  /\ fbAsyncInit' = <<>>
  /\ attempts' = MarkStale(attempts)
  /\ lastOp' = Op("resetSDK", 0)
  /\ UNCHANGED <<scripts, callers, initCalls, initReturned>>
  /\ UNCHANGED launcherVars

\* The attempt awaiting the load of script s, if any.
Awaiting(s) == {a \in DOMAIN attempts :
                  attempts[a].pc = "injectWait" /\ attempts[a].script = s}

\* script.onload: the SDK script has run (definesFB: it defined window.FB),
\* the promise of _injectScript resolves and _initSDK() runs.
ScriptLoad(s, definesFB) ==
  /\ ~MicrotaskPending
  /\ s \in DOMAIN scripts
  /\ scripts[s].state = "fetching"
  /\ scripts' = [scripts EXCEPT ![s].state = "loaded"]
  /\ LET st0 == [State EXCEPT !.windowFB = @ \/ definesFB]
         A == Awaiting(s)
     IN IF A = {} THEN SetState(st0) /\ lastOp' = Op("scriptLoad", 0)
        ELSE LET a == CHOOSE x \in A : TRUE
             IN SetState(InitSDK(st0, a)) /\ lastOp' = Op("scriptLoad", a)
  /\ UNCHANGED <<dom, callers, resets>>
  /\ UNCHANGED launcherVars

\* script.onerror: the promise of _injectScript rejects.
ScriptError(s) ==
  /\ ~MicrotaskPending
  /\ s \in DOMAIN scripts
  /\ scripts[s].state = "fetching"
  /\ scripts' = [scripts EXCEPT ![s].state = "failed"]
  /\ LET A == Awaiting(s)
     IN IF A = {} THEN SetState(State) /\ lastOp' = Op("scriptError", 0)
        ELSE LET a == CHOOSE x \in A : TRUE
             IN /\ SetState(CatchBlock(State, a, "ScriptLoadError"))
                /\ lastOp' = Op("scriptError", a)
  /\ UNCHANGED <<dom, callers, resets>>
  /\ UNCHANGED launcherVars

\* The loaded SDK script s signals readiness: it calls window.fbAsyncInit
\* if one is installed (definesFB: window.FB is defined by then at the
\* latest; T: the positions in the chain whose FB.init call throws).
HookFire(s, definesFB, T) ==
  /\ ~MicrotaskPending
  /\ s \in DOMAIN scripts
  /\ scripts[s].state = "loaded"
  /\ ~scripts[s].hookFired
  /\ T \subseteq DOMAIN fbAsyncInit
  /\ scripts' = [scripts EXCEPT ![s].hookFired = TRUE]
  /\ LET st0 == [State EXCEPT !.windowFB = @ \/ definesFB]
         chain == fbAsyncInit
     IN SetState(RunCatches(RunHooks(st0, chain, 1, T), chain, 1))
  /\ lastOp' = Op("hookFire", IF fbAsyncInit = <<>> THEN 0
                              ELSE fbAsyncInit[Len(fbAsyncInit)])
  /\ UNCHANGED <<dom, callers, resets>>
  /\ UNCHANGED launcherVars

\* The setTimeout callback of attempt a, INIT_TIMEOUT_MS after _initSDK.
Timeout(a) ==
  /\ ~MicrotaskPending
  /\ a \in DOMAIN attempts
  /\ attempts[a].timer
  /\ LET st0 == [State EXCEPT !.attempts[a].timer = FALSE]
     IN IF ~attempts[a].settled
          THEN SetState(CatchBlock([st0 EXCEPT !.attempts[a].settled = TRUE],
                                   a, "InitTimeout"))
          ELSE SetState(st0)
  /\ lastOp' = Op("timeout", a)
  /\ UNCHANGED <<dom, scripts, callers, resets>>
  /\ UNCHANGED launcherVars

Next ==
  \/ \E hasAppId \in BOOLEAN, hasScript \in BOOLEAN :
        LoadSDK(hasAppId, hasScript)
  \/ \E a \in 1..MaxAttempts : ContinueInit(a)
  \/ ResetSDK
  \/ \E s \in 1..MaxAttempts, d \in BOOLEAN : ScriptLoad(s, d)
  \/ \E s \in 1..MaxAttempts : ScriptError(s)
  \/ \E s \in 1..MaxAttempts, d \in BOOLEAN, T \in SUBSET (1..MaxAttempts) :
        HookFire(s, d, T)
  \/ \E a \in 1..MaxAttempts : Timeout(a)

Spec == Init /\ [][Next]_vars

TypeOK ==
  /\ FB \in BOOLEAN /\ isReady \in BOOLEAN /\ isLoading \in BOOLEAN
  /\ error \in Errors \cup {"none"}
  /\ loadPromise \in 0..MaxAttempts
  /\ Cardinality(dom) <= 1
  /\ listening \in BOOLEAN
  /\ msgCount \in 0..MaxMessages
  /\ Len(launches) <= MaxLaunches

\* ---- derived notions used by the properties ---------------------------

\* The loadSDK() calls that were handed the promise of attempt a.
Joined(a) == {c \in DOMAIN callers : callers[c] = a}

\* What the promise handed to call c has done.
CallerOutcome(c) ==
  IF callers[c] = 0 THEN "resolved"
  ELSE IF attempts[callers[c]].pc \in Pending THEN "pending"
  ELSE attempts[callers[c]].pc

PendingAttempts == {a \in DOMAIN attempts : attempts[a].pc \in Pending}

loaderVars == <<FB, isReady, isLoading, error, loadPromise>>

\* ---- C1 -----------------------------------------------------------------
\* C1 (as stated): every load that was joined by further loadSDK() calls
\* while in flight and that resolved has inserted exactly one script element
\* and has seen exactly one FB.init call, and all its callers have the same
\* outcome.
C1_OneInjectionOneInit ==
  \A a \in DOMAIN attempts :
    (attempts[a].pc = "resolved" /\ Cardinality(Joined(a)) >= 2) =>
      /\ attempts[a].injected
      /\ attempts[a].inits = 1
      /\ \A c \in Joined(a) : CallerOutcome(c) = "resolved"

\* ---- C2 -----------------------------------------------------------------
\* C2 (as stated): whenever isReady is true, FB.init has been called and has
\* returned without error.
C2_ReadyImpliesInit == isReady => initReturned >= 1

\* ---- C3 -----------------------------------------------------------------
\* C3 (as stated): a loadSDK() call made in Failed clears the error, moves
\* the loader to Loading and attempts the script injection again: after the
\* call the document holds an SDK script element that is being fetched or
\* has loaded, never only the element whose load failed.
C3_RetryInjectsAgain ==
  [][(Len(callers') = Len(callers) + 1 /\ Phase(State) = "Failed")
       => /\ error' = "none"
          /\ isLoading'
          /\ dom' # {}
          /\ \A s \in dom' : scripts'[s].state # "failed"]_vars

\* ---- C4 -----------------------------------------------------------------
\* C4: in every reachable state isReady implies that the handle is present
\* and that no error is stored, and isLoading implies that isReady is false.
C4_FlagInvariant ==
  /\ isReady => (FB /\ error = "none")
  /\ isLoading => ~isReady

\* C4 witness: Ready was reached through the readiness hook after a reset and
\* a failed attempt, with the handle stored.
C4_Witness ==
  /\ isReady /\ FB /\ error = "none" /\ ~isLoading
  /\ resets >= 1
  /\ lastOp.op = "hookFire"
  /\ \E a \in DOMAIN attempts : attempts[a].pc = "rejected"

\* ---- C5 -----------------------------------------------------------------
\* C5 (as stated): at most one load attempt is pending at any moment.
C5_AtMostOnePending == Cardinality(PendingAttempts) <= 1

\* ---- C6 -----------------------------------------------------------------
\* C6 (as stated): a step in which an attempt that was pending when
\* resetSDK() ran settles, and in which no other attempt moves, leaves
\* isReady, isLoading, error, the handle and the in-flight reference as
\* they were.
C6_StaleSettlementIsNoOp ==
  [][( /\ \E a \in DOMAIN attempts :
             /\ attempts[a].stale
             /\ attempts[a].pc \in Pending
             /\ attempts'[a].pc \notin Pending
       /\ \A b \in DOMAIN attempts :
             ~attempts[b].stale => attempts'[b] = attempts[b] )
       => UNCHANGED loaderVars]_vars

\* ---- C7 -----------------------------------------------------------------
\* C7: a loadSDK() call made while isReady inserts no script element,
\* installs no hook, starts no timer and no attempt, leaves isReady,
\* isLoading, error, the handle and the in-flight reference unchanged, and
\* is handed a resolved promise.
C7_LoadWhenReadyIsNoOp ==
  [][(Len(callers') = Len(callers) + 1 /\ isReady)
       => /\ UNCHANGED <<loaderVars, windowFB, fbAsyncInit, dom, scripts,
                         attempts, initCalls, initReturned>>
          /\ callers'[Len(callers')] = 0]_vars

\* C7 witness: the last handler was a loadSDK() call made in Ready; it
\* resolved at once and the loader is still Ready.
C7_Witness ==
  /\ lastOp.op = "loadSDK" /\ lastOp.pre = "Ready"
  /\ callers # <<>> /\ CallerOutcome(Len(callers)) = "resolved"
  /\ callers[Len(callers)] = 0
  /\ isReady

\* ---- C8 -----------------------------------------------------------------
\* C8: a step in which a pending attempt is rejected ends with isLoading
\* false, isReady false, error equal to the failure the attempt was rejected
\* with, the in-flight reference null, and every caller of that attempt
\* rejected.
C8_FailureLeavesFailed ==
  [][\A a \in DOMAIN attempts :
       (attempts[a].pc \in Pending /\ attempts'[a].pc = "rejected")
         => /\ ~isLoading' /\ ~isReady'
            /\ attempts'[a].err \in Errors
            /\ error' = attempts'[a].err
            /\ loadPromise' = 0
            /\ \A c \in DOMAIN callers' :
                 callers'[c] = a => attempts'[callers'[c]].pc = "rejected"]_vars

\* C8 witness: the readiness hook has just rejected an attempt with the
\* exception of FB.init, and the loader is Failed with that error.
C8_Witness ==
  /\ lastOp.op = "hookFire" /\ lastOp.att # 0
  /\ attempts[lastOp.att].pc = "rejected"
  /\ attempts[lastOp.att].err = "InitException"
  /\ initCalls > initReturned
  /\ Joined(lastOp.att) # {}
  /\ Phase(State) = "Failed" /\ error = "InitException" /\ loadPromise = 0

\* ---- C9 -----------------------------------------------------------------
\* C9: every resetSDK() call ends with the handle absent, isReady and
\* isLoading false, error absent, the in-flight reference null, no SDK script
\* element in the document, and window.FB and window.fbAsyncInit undefined.
C9_ResetLeavesIdle ==
  [][resets' = resets + 1
       => /\ ~FB' /\ ~isReady' /\ ~isLoading' /\ error' = "none"
          /\ loadPromise' = 0
          /\ dom' = {}
          /\ ~windowFB' /\ fbAsyncInit' = <<>>]_vars

\* C9 witness: resetSDK() has just run in Loading, with an attempt pending
\* whose script element it removed and whose hook it uninstalled.
C9_Witness ==
  /\ lastOp.op = "resetSDK" /\ lastOp.pre = "Loading"
  /\ Phase(State) = "Idle" /\ loadPromise = 0 /\ ~FB
  /\ scripts # <<>> /\ dom = {}
  /\ \E a \in PendingAttempts : attempts[a].timer

\* ---- C10 ----------------------------------------------------------------
\* The readiness hook fires while the chain of installed hooks holds the
\* hook of an attempt already rejected with the initialization timeout.
LateHookStep(a) ==
  /\ \E s \in DOMAIN scripts : ~scripts[s].hookFired /\ scripts'[s].hookFired
  /\ \E i \in DOMAIN fbAsyncInit : fbAsyncInit[i] = a
  /\ attempts[a].pc = "rejected" /\ attempts[a].err = "InitTimeout"

C11_LoadingIffPending ==
  isLoading <=> (\E a \in PendingAttempts : ~attempts[a].stale)

(***************************************************************************)
(* The popup-flow launcher (components/FacebookSignUp.vue).                *)
(*                                                                         *)
(* A window message event carries event.data, either a string or a        *)
(* structured value.  A value is a record: kind "garbage" is text that is  *)
(* not JSON, kind "null" is the JSON value null, kind "object" is an       *)
(* object with the fields type, event and data (each possibly undefined).  *)
(***************************************************************************)
Sentinel == "WA_EMBEDDED_SIGNUP"

NoData == [present |-> FALSE, waba_id |-> Absent, phone_number_id |-> Absent,
           current_step |-> Absent]

\* The values a message dispatched as the n-th message event can carry.
Bodies(n) ==
  LET ids == [present |-> TRUE, waba_id |-> "waba" \o ToString(n),
              phone_number_id |-> "phone" \o ToString(n),
              current_step |-> Absent]
      step == [present |-> TRUE, waba_id |-> Absent,
               phone_number_id |-> Absent, current_step |-> "step"]
      empty == [NoData EXCEPT !.present = TRUE]
      obj(t, e, d) == [kind |-> "object", type |-> t, event |-> e, data |-> d]
  IN { [kind |-> "garbage", type |-> Absent, event |-> Absent, data |-> NoData],
       [kind |-> "null", type |-> Absent, event |-> Absent, data |-> NoData],
       obj("OTHER", "CANCEL", step),
       obj(Sentinel, "FINISH", ids),
       obj(Sentinel, "FINISH", NoData),
       obj(Sentinel, "CANCEL", step),
       obj(Sentinel, "ERROR", empty),
       obj(Sentinel, "CANCEL", NoData),
       obj(Sentinel, "OTHER", step) }

\* JSON.parse(text): the value the text denotes, or a SyntaxError.
JSONParse(text) ==
  IF text.kind = "garbage" THEN [threw |-> TRUE, value |-> text]
  ELSE [threw |-> FALSE, value |-> text]

\* A launcher event as the parent component receives it.
Event(type, src, l, code, data, step, lst) ==
  [type |-> type, src |-> src, launch |-> l, code |-> code,
   wabaId |-> data.waba_id, phoneNumberId |-> data.phone_number_id,
   step |-> step, listening |-> lst]

\* What one run of _onMessage does to the launcher state lst =
\* [sessionData, events, listening]: the try block up to its return or to
\* the first exception, which the catch block swallows.
OnMessage(lst, isString, body) ==
  LET parsed == IF isString THEN JSONParse(body)
                ELSE [threw |-> FALSE, value |-> body]
      payload == parsed.value
  IN IF parsed.threw THEN lst
     ELSE IF payload.kind = "null" THEN lst      \* payload.type throws
     ELSE IF payload.type # Sentinel THEN lst
     ELSE IF payload.event = "FINISH"
       THEN IF ~payload.data.present THEN lst    \* payload.data.x throws
            ELSE [lst EXCEPT !.sessionData =
                    [waba_id |-> payload.data.waba_id,
                     phone_number_id |-> payload.data.phone_number_id]]
     ELSE IF payload.event \in {"CANCEL", "ERROR"}
       THEN IF ~payload.data.present THEN lst    \* payload.data.x throws
            ELSE [lst EXCEPT !.events =
                    Append(@, Event("cancel", "message", 0, Absent, EmptyData,
                                    payload.data.current_step, lst.listening))]
     ELSE lst

\* The message is a sentinel-type FINISH message that carries a data object.
IsFinish(isString, body) ==
  /\ body.kind = "object" /\ body.type = Sentinel
  /\ body.event = "FINISH" /\ body.data.present

\* The launches of seq, those whose login callback has not fired yet noting
\* the identifiers d of a FINISH message that arrives now.
RECURSIVE NoteFinish(_, _)
NoteFinish(seq, d) ==
  IF seq = <<>> THEN <<>>
  ELSE <<IF Head(seq).open
           THEN [Head(seq) EXCEPT !.finish = d, !.seen = @ \cup {d}]
           ELSE Head(seq)>> \o NoteFinish(Tail(seq), d)

\* A message event is dispatched on the window; _onMessage runs if it is
\* registered.
MessageEvent(isString, body) ==
  /\ msgCount < MaxMessages
  /\ body \in Bodies(msgCount + 1)
  /\ body.kind = "garbage" => isString
  /\ msgCount' = msgCount + 1
  /\ LET lst == [sessionData |-> sessionData, events |-> events,
                 listening |-> listening]
         out == IF listening THEN OnMessage(lst, isString, body) ELSE lst
     IN /\ sessionData' = out.sessionData
        /\ events' = out.events
  /\ launches' = IF IsFinish(isString, body)
                   THEN NoteFinish(launches,
                          [waba_id |-> body.data.waba_id,
                           phone_number_id |-> body.data.phone_number_id])
                   ELSE launches
  /\ UNCHANGED listening
  /\ UNCHANGED loaderAll

\* A launchSignup() call: started tells whether it passed the readiness
\* guard, open whether its login callback is still to fire; atLogin is the
\* launcher state in which FB.login() was invoked (in which the call
\* returned, if it did not pass the guard), seen the identifiers of the
\* FINISH messages dispatched while the launch was open and finish those of
\* the last of them, firedAt the number of messages dispatched before its
\* login callback fired.
Launch(started, atLogin) ==
  [started |-> started, open |-> started, atLogin |-> atLogin,
   finish |-> EmptyData, seen |-> {}, firedAt |-> 0]

\* launchSignup() whose guard looks at the handle only.
LaunchSignupHandleGuard ==
  /\ Len(launches) < MaxLaunches
  /\ IF ~FB
       THEN /\ launches' = Append(launches,
                 Launch(FALSE, [sessionData |-> sessionData,
                                listening |-> listening]))
            /\ UNCHANGED <<sessionData, listening>>
       ELSE LET s1 == [sessionData |-> EmptyData, listening |-> listening]
                s2 == [s1 EXCEPT !.listening = TRUE]
            IN /\ launches' = Append(launches, Launch(TRUE, s2))
               /\ sessionData' = s2.sessionData
               /\ listening' = s2.listening
  /\ UNCHANGED <<events, msgCount>>
  /\ UNCHANGED loaderAll

\* launchSignup()
LaunchSignup ==
  /\ Len(launches) < MaxLaunches
  /\ IF ~FB \/ ~isReady
       THEN /\ launches' = Append(launches,
                 Launch(FALSE, [sessionData |-> sessionData,
                                listening |-> listening]))
            /\ UNCHANGED <<sessionData, listening>>
       ELSE LET s1 == [sessionData |-> EmptyData, listening |-> listening]
                s2 == [s1 EXCEPT !.listening = TRUE]
            IN /\ launches' = Append(launches, Launch(TRUE, s2))
               /\ sessionData' = s2.sessionData
               /\ listening' = s2.listening
  /\ UNCHANGED <<events, msgCount>>
  /\ UNCHANGED loaderAll

\* The values of code and of accessToken in an authResponse: undefined, the
\* empty string, or a credential.
Codes == {Absent, "", "code"}

Tokens == {Absent, "", "token"}

\* The responses FB.login() hands to its callback: authResponse is missing,
\* or holds code and accessToken.
Responses ==
  {[auth |-> FALSE, code |-> Absent, accessToken |-> Absent]}
    \cup {[auth |-> TRUE, code |-> c, accessToken |-> t] :
            c \in Codes, t \in Tokens}

\* !x for a string or undefined x
Falsy(x) == x \in {Absent, ""}

\* code ?? accessToken
Coalesce(code, accessToken) == IF code # Absent THEN code ELSE accessToken

\* The login callback without its check for missing credentials.
CallbackEventNoError(l, r, lst) ==
  IF ~r.auth
    THEN Event("cancel", "callback", l, Absent, EmptyData, Absent, lst)
  ELSE Event("success", "callback", l, Coalesce(r.code, r.accessToken),
             sessionData, Absent, lst)

\* The event the login callback of launch l emits for response r, with the
\* listener in state lst.
CallbackEvent(l, r, lst) ==
  IF ~r.auth
    THEN Event("cancel", "callback", l, Absent, EmptyData, Absent, lst)
  ELSE IF Falsy(r.code) /\ Falsy(r.accessToken)
    THEN Event("error", "callback", l, Absent, EmptyData, Absent, lst)
  ELSE Event("success", "callback", l, Coalesce(r.code, r.accessToken),
             sessionData, Absent, lst)

\* The login callback that leaves the message listener registered.
LoginCallbackKeepsListener(l, r) ==
  /\ l \in DOMAIN launches
  /\ launches[l].open
  /\ r \in Responses
  /\ listening' = listening
  /\ events' = Append(events, CallbackEvent(l, r, listening'))
  /\ launches' = [launches EXCEPT ![l].open = FALSE, ![l].firedAt = msgCount]
  /\ UNCHANGED <<sessionData, msgCount>>
  /\ UNCHANGED loaderAll

\* The callback FB.login() was given by launch l fires with response r.
LoginCallback(l, r) ==
  /\ l \in DOMAIN launches
  /\ launches[l].open
  /\ r \in Responses
  /\ listening' = FALSE
  /\ events' = Append(events, CallbackEvent(l, r, listening'))
  /\ launches' = [launches EXCEPT ![l].open = FALSE, ![l].firedAt = msgCount]
  /\ UNCHANGED <<sessionData, msgCount>>
  /\ UNCHANGED loaderAll

\* Loader states the launcher is mounted in: before any load, after a load
\* that made the SDK Ready, and with the handle set but the SDK not Ready.
LoaderIdle ==
  /\ FB = FALSE /\ isReady = FALSE /\ isLoading = FALSE /\ error = "none"
  /\ loadPromise = 0 /\ windowFB = FALSE /\ fbAsyncInit = <<>>
  /\ dom = {} /\ scripts = <<>> /\ attempts = <<>> /\ callers = <<>>
  /\ resets = 0 /\ initCalls = 0 /\ initReturned = 0
  /\ lastOp = [op |-> "init", att |-> 0, pre |-> "Idle"]

LoaderReady ==
  /\ FB = TRUE /\ isReady = TRUE /\ isLoading = FALSE /\ error = "none"
  /\ loadPromise = 1 /\ windowFB = TRUE /\ fbAsyncInit = <<1>>
  /\ dom = {1} /\ scripts = <<[state |-> "loaded", hookFired |-> TRUE]>>
  /\ attempts = <<[pc |-> "resolved", err |-> "none", appId |-> TRUE,
                   timer |-> FALSE, inits |-> 1, settled |-> TRUE,
                   hookErr |-> FALSE, script |-> 1, stale |-> FALSE,
                   injected |-> TRUE]>>
  /\ callers = <<1>> /\ resets = 0 /\ initCalls = 1 /\ initReturned = 1
  /\ lastOp = [op |-> "hookFire", att |-> 1, pre |-> "Loading"]

LoaderHandleOnly ==
  /\ FB = TRUE /\ isReady = FALSE /\ isLoading = FALSE
  /\ error = "ScriptLoadError"
  /\ loadPromise = 0 /\ windowFB = TRUE /\ fbAsyncInit = <<>>
  /\ dom = {2}
  /\ scripts = <<[state |-> "failed", hookFired |-> FALSE],
                 [state |-> "loaded", hookFired |-> FALSE]>>
  /\ attempts = <<[pc |-> "rejected", err |-> "ScriptLoadError",
                   appId |-> FALSE, timer |-> FALSE, inits |-> 0,
                   settled |-> FALSE, hookErr |-> FALSE, script |-> 1,
                   stale |-> TRUE, injected |-> TRUE],
                  [pc |-> "resolved", err |-> "none", appId |-> TRUE,
                   timer |-> FALSE, inits |-> 0, settled |-> FALSE,
                   hookErr |-> FALSE, script |-> 2, stale |-> FALSE,
                   injected |-> TRUE]>>
  /\ callers = <<1, 2>> /\ resets = 1 /\ initCalls = 0 /\ initReturned = 0
  /\ lastOp = [op |-> "scriptError", att |-> 1, pre |-> "Ready"]

InitLauncher ==
  /\ LauncherInit
  /\ LoaderIdle \/ LoaderReady \/ LoaderHandleOnly

NextLauncher ==
  \/ LaunchSignup
  \/ \E l \in 1..MaxLaunches, r \in Responses : LoginCallback(l, r)
  \/ \E isString \in BOOLEAN, n \in 1..MaxMessages :
        \E body \in Bodies(n) : MessageEvent(isString, body)
  \/ ResetSDK

SpecLauncher == InitLauncher /\ [][NextLauncher]_vars

\* The launches whose login callback has not fired yet.
OpenLaunches == {l \in DOMAIN launches : launches[l].open}

\* The events the login callback of launch l emitted.
CallbackEvents(l) ==
  {i \in DOMAIN events : events[i].src = "callback" /\ events[i].launch = l}

\* A launchSignup() call is the only step that adds a launch.
LaunchStep == Len(launches') = Len(launches) + 1

\* Launch l fires its login callback in this step.
CallbackStep(l) ==
  /\ l \in DOMAIN launches /\ launches[l].open /\ ~launches'[l].open

\* ---- C12 ----------------------------------------------------------------
\* C12: a launchSignup() call made while the loader is not Ready is a no-op:
\* it emits no event, does not reset the session buffer, does not register
\* the message listener and does not call FB.login().
C12_LaunchNotReadyIsNoOp ==
  [][(LaunchStep /\ ~(FB /\ isReady))
       => /\ UNCHANGED <<events, sessionData, listening>>
          /\ ~launches'[Len(launches')].started]_vars

\* A launch returned at the guard after the SDK was reset while a popup was
\* open: the listener is still registered and the buffer still filled.
C12_Witness ==
  \E l \in DOMAIN launches :
    /\ ~launches[l].started /\ ~isReady
    /\ launches[l].atLogin.listening
    /\ launches[l].atLogin.sessionData # EmptyData
    /\ listening /\ sessionData = launches[l].atLogin.sessionData
    /\ OpenLaunches # {}

\* ---- C13 ----------------------------------------------------------------
\* C13: each firing of the login callback first removes the message listener
\* and then emits exactly one event: cancel without a step when authResponse
\* is missing; error when authResponse has neither a code nor an access
\* token (both are undefined or empty); success otherwise, carrying the code
\* field, or the access token when there is no code field.
C13_CallbackEmitsOne ==
  [][\A l \in 1..MaxLaunches : \A r \in Responses :
       (CallbackStep(l) /\ LoginCallback(l, r)) =>
         /\ ~listening'
         /\ Len(events') = Len(events) + 1
         /\ SubSeq(events', 1, Len(events)) = events
         /\ LET e == events'[Len(events')]
            IN /\ e.src = "callback" /\ e.launch = l /\ ~e.listening
               /\ ~r.auth => e.type = "cancel" /\ e.step = Absent
               /\ (r.auth /\ r.code \in {Absent, ""}
                     /\ r.accessToken \in {Absent, ""}) => e.type = "error"
               /\ (r.auth /\ ~(r.code \in {Absent, ""}
                                /\ r.accessToken \in {Absent, ""}))
                    => /\ e.type = "success"
                       /\ r.code # Absent => e.code = r.code
                       /\ r.code = Absent => e.code = r.accessToken]_vars

\* Two login callbacks have fired, one with credentials and one without;
\* each emitted its event with the listener already removed.
C13_Witness ==
  /\ ~listening
  /\ \E i, j \in DOMAIN events :
       /\ events[i].src = "callback" /\ events[i].type = "success"
       /\ events[i].code = "code" /\ ~events[i].listening
       /\ events[j].src = "callback" /\ events[j].type = "error"

\* The message is a sentinel-type message with sub-event CANCEL or ERROR.
IsCancel(body) ==
  /\ body.kind = "object" /\ body.type = Sentinel
  /\ body.event \in {"CANCEL", "ERROR"}

\* A message event is dispatched in this step.
MessageStep == msgCount' = msgCount + 1

StartedLaunches == {l \in DOMAIN launches : launches[l].started}

\* ---- C14 ----------------------------------------------------------------
\* C14 (as stated): the success event of a launch carries the identifiers of
\* the FINISH message that arrived during that launch before its login
\* callback, and carries no identifiers when no FINISH message arrived
\* during the launch.
C14_SuccessCarriesFinishIds ==
  \A i \in DOMAIN events :
    events[i].type = "success" =>
      /\ events[i].wabaId = launches[events[i].launch].finish.waba_id
      /\ events[i].phoneNumberId
           = launches[events[i].launch].finish.phone_number_id

\* ---- C15 ----------------------------------------------------------------
\* C15 (as stated): a sentinel-type CANCEL or ERROR message that arrives
\* while the listener is registered and a login callback is still to fire
\* emits cancel at that point with the message's current_step and leaves the
\* listener registered; the callback that fires later emits its own event
\* as well.
C15_CancelMessageEmits ==
  [][/\ \A isString \in BOOLEAN, n \in 1..MaxMessages : \A body \in Bodies(n) :
          (MessageEvent(isString, body) /\ IsCancel(body)
             /\ listening /\ OpenLaunches # {})
            => /\ listening'
               /\ Len(events') = Len(events) + 1
               /\ events'[Len(events')].type = "cancel"
               /\ events'[Len(events')].step = body.data.current_step
     /\ \A l \in 1..MaxLaunches :
           CallbackStep(l) => Len(events') = Len(events) + 1]_vars

\* ---- C16 ----------------------------------------------------------------
\* C16 (as stated): a launch emits at most one outcome event, so there are
\* never more events than launches that called FB.login().
C16_AtMostOneOutcome == Len(events) <= Cardinality(StartedLaunches)

\* ---- C17 ----------------------------------------------------------------
\* C17 (as stated): for any sequence of launches, overlapping ones included,
\* the listener is registered from a launch's login call until that launch's
\* own callback fires, and the identifiers in a launch's success event come
\* only from FINISH messages dispatched between that launch's start and its
\* own callback.
C17_ScopedToLaunch ==
  /\ OpenLaunches # {} => listening
  /\ \A i \in DOMAIN events :
       events[i].type = "success" =>
         [waba_id |-> events[i].wabaId,
          phone_number_id |-> events[i].phoneNumberId]
           \in {EmptyData} \cup launches[events[i].launch].seen

\* ---- C18 ----------------------------------------------------------------
\* C18 (as stated): every launch made while Ready calls FB.login() with the
\* buffer already reset and the listener already registered, so every
\* message dispatched after a login call and before that launch's callback
\* finds the listener registered.
C18_ListenerBeforeLogin ==
  [][/\ (LaunchStep /\ launches'[Len(launches')].started)
          => /\ launches'[Len(launches')].atLogin.listening
             /\ launches'[Len(launches')].atLogin.sessionData = EmptyData
     /\ (MessageStep /\ OpenLaunches # {}) => listening]_vars

\* ---- C19 ----------------------------------------------------------------
\* C19: a message event dispatched after a login callback has fired, with no
\* launch in progress, emits no event and leaves the session buffer as it
\* was.
C19_LateMessageDropped ==
  [][(MessageStep /\ OpenLaunches = {} /\ StartedLaunches # {})
       => UNCHANGED <<events, sessionData>>]_vars

\* A message was dispatched after the only launch's callback had fired; the
\* callback's event is the only one and the buffer is as the launch left it.
C19_Witness ==
  /\ Len(launches) = 1 /\ launches[1].started /\ ~launches[1].open
  /\ launches[1].firedAt < msgCount
  /\ sessionData = EmptyData
  /\ Len(events) = 1 /\ events[1].src = "callback"

\* ---- C20 ----------------------------------------------------------------
\* C20 (as stated): a message whose data fails to parse or whose type is not
\* the sentinel emits no event, leaves the buffer unchanged and the listener
\* registered; and every sentinel-type message with sub-event CANCEL or
\* ERROR received while the listener is registered emits cancel.
C20_MalformedIgnoredCancelEmits ==
  [][\A isString \in BOOLEAN, n \in 1..MaxMessages : \A body \in Bodies(n) :
       MessageEvent(isString, body) =>
         /\ (body.kind # "object" \/ body.type # Sentinel)
              => UNCHANGED <<events, sessionData, listening>>
         /\ (IsCancel(body) /\ listening)
              => /\ Len(events') = Len(events) + 1
                 /\ events'[Len(events')].type = "cancel"]_vars

\* ---- C21 ----------------------------------------------------------------
\* The event loop runs every queued promise reaction, every armed timer
\* fires, and the browser delivers a load or an error event for every script
\* element it fetches.  The readiness signal of the SDK may never come.
Fairness ==
  /\ \A a \in 1..MaxAttempts : WF_vars(ContinueInit(a))
  /\ \A a \in 1..MaxAttempts : WF_vars(Timeout(a))
  /\ \A s \in 1..MaxAttempts :
       WF_vars((\E d \in BOOLEAN : ScriptLoad(s, d)) \/ ScriptError(s))

SpecFair == Init /\ [][Next]_vars /\ Fairness

\* C21 (as stated): every load attempt eventually settles, and whenever the
\* loader is Loading it eventually leaves Loading.
C21_EveryLoadSettles ==
  /\ \A a \in 1..MaxAttempts :
       (a \in DOMAIN attempts /\ attempts[a].pc \in Pending)
         ~> (a \in DOMAIN attempts /\ attempts[a].pc \notin Pending)
  /\ isLoading ~> ~isLoading

\* ---- C22 ----------------------------------------------------------------
\* C22 (as stated): whenever the login callback emits success, for code and
\* accessToken each undefined, empty or non-empty, the code field of the
\* event is a non-empty string: the code when the code is non-empty, the
\* access token otherwise.
C22_SuccessCarriesCredential ==
  [][\A l \in 1..MaxLaunches : \A r \in Responses :
       (CallbackStep(l) /\ LoginCallback(l, r)
          /\ events'[Len(events')].type = "success")
         => /\ events'[Len(events')].code \notin {Absent, ""}
            /\ events'[Len(events')].code
                 = IF r.code \notin {Absent, ""} THEN r.code
                   ELSE r.accessToken]_vars

====
